---- MODULE Spec2Model ----
(***************************************************************************)
(* LingoSnap (src/main.go): a global hotkey listener that dispatches one   *)
(* goroutine per key release; each goroutine captures the foreground       *)
(* selection through the system clipboard, sends it to the remote model,   *)
(* pastes the answer over the selection and restores the clipboard.        *)
(*                                                                         *)
(* Text is a sequence of one-character strings, so that strings.TrimSpace  *)
(* and strings.Split are computed rather than assumed.                     *)
(*                                                                         *)
(* Environment (the platform primitives the program calls):                *)
(*  - the clipboard is one process-wide cell; ReadAll returns its content  *)
(*    and WriteAll replaces it;                                            *)
(*  - the copy keystroke puts the foreground selection on the clipboard,   *)
(*    and leaves the clipboard alone when nothing is selected;             *)
(*  - the paste keystroke replaces the selection by the clipboard content  *)
(*    and leaves nothing selected;                                         *)
(*  - gohook is one process-wide hook: Register appends a (keys, callback) *)
(*    pair, Start runs the hook, StopEvent stops it, and a key release     *)
(*    calls the callback of every registered pair whose keys are released; *)
(*  - the remote service answers every call of a period the same way: with *)
(*    a translation, with whitespace only, with an error, or never;        *)
(*  - a clipboard call of the program may fail while the clipboard is      *)
(*    unreadable or unwritable: a failed ReadAll returns "" and an error,  *)
(*    a failed WriteAll leaves the clipboard as it was and returns an      *)
(*    error; the keystrokes of the foreground application are unaffected.  *)
(***************************************************************************)
EXTENDS Integers, Sequences, FiniteSets, TLC

\* ------------------------------------------------------------------ bounds
\* number of processSelectedText goroutines one behaviour may dispatch
MaxRuns == 2
\* number of restartHotkeyListener calls one behaviour may make
MaxRestarts == 2

\* ------------------------------------------------------------------- text
White == {" "}

RECURSIVE TrimLeft(_)
TrimLeft(s) ==
    IF s = <<>> THEN s
    ELSE IF Head(s) \in White THEN TrimLeft(Tail(s)) ELSE s

RECURSIVE TrimRight(_)
TrimRight(s) ==
    IF s = <<>> THEN s
    ELSE IF s[Len(s)] \in White THEN TrimRight(SubSeq(s, 1, Len(s) - 1)) ELSE s

\* strings.TrimSpace
TrimSpace(s) == TrimRight(TrimLeft(s))

\* clipboard contents the user may have before a run ("" is the empty clipboard)
ClipContents == { <<>>, <<"c">>, <<" ">> }
\* foreground selections (<<>> is "nothing selected")
Selections == { <<>>, <<" ">>, <<"a">>, <<" ", "a">> }

\* The remote model's answer to a request text: every letter translated,
\* followed by the trailing whitespace such answers carry.
Letter(ch) == CASE ch = "a" -> "x" [] ch = "c" -> "y" [] ch = "x" -> "x"
                [] ch = "y" -> "y" [] OTHER -> ch
RespText(text) == [i \in 1..Len(text) |-> Letter(text[i])] \o <<" ">>

\* what the remote service does with one call
Answers == {"ok", "empty", "error", "never"}

\* ---------------------------------------------------------------- hotkeys
\* two of hotkeyOptions, as the characters strings.Split sees
HotkeyOptions == { <<"rshift">>, <<"alt", "+", "z">> }
DefaultHotkey == <<"rshift">>

\* strings.Split(hotkey, "+")
Split(h) == SelectSeq(h, LAMBDA x : x # "+")

Range(f) == { f[i] : i \in DOMAIN f }

Runs == 1..MaxRuns
Listeners == 0..MaxRestarts

VARIABLES
    clipboard,       \* the system clipboard
    selection,       \* the text selected in the foreground application
    runs,            \* one record per processSelectedText goroutine
    started,         \* number of runs dispatched so far
    service,         \* how the remote service treats the calls it gets
    fault,           \* the clipboard call that fails at present, if any
    selectedIndex,   \* t.selectedIndex
    prompts,         \* t.config.Prompts: the texts of the user's prompts
    hotkey,          \* t.config.Hotkey
    prevHotkey,      \* the binding configured before the last change
    hotkeyStopChan,  \* t.hotkeyStopChan: the id of the current channel
    closedChans,     \* ids of the channels that have been closed
    chansMade,       \* number of channels made so far (ids 0..chansMade-1)
    hotkeyMutex,     \* t.hotkeyMutex: "free" or "restart"
    restartPc,       \* position of the UI thread inside restartHotkeyListener
    restartsDone,    \* number of restartHotkeyListener calls that returned
    listeners,       \* one record per runHotkeyListener goroutine
    spawned,         \* number of listener goroutines spawned so far
    hookKeys,        \* gohook's registered key lists, in registration order
    hookRunning,     \* gohook's process-wide hook is running
    panicked         \* a closed channel was closed again (Go panics)

vars == << clipboard, selection, runs, started, service, fault,
           selectedIndex, prompts, hotkey, prevHotkey,
           hotkeyStopChan, closedChans, chansMade, hotkeyMutex, restartPc,
           restartsDone, listeners, spawned, hookKeys, hookRunning, panicked >>

orchVars == << clipboard, selection, runs >>
listenerVars == << hotkey, prevHotkey, hotkeyStopChan, closedChans, chansMade,
                   hotkeyMutex, restartPc, restartsDone, listeners, spawned,
                   hookKeys, hookRunning, panicked >>
configVars == << selectedIndex, prompts >>

NoText == <<"?">>

IdleRun == [ pc |-> "idle", prev |-> <<>>, text |-> <<>>, txt |-> <<>>,
             answer |-> "none", err |-> FALSE,
             clip0 |-> NoText, sel0 |-> NoText, alone |-> TRUE,
             called |-> FALSE,
             pasted |-> FALSE, pastedText |-> NoText, pastedOver |-> NoText,
             clipEnd |-> NoText,
             prompt |-> "none", writeFail |-> FALSE, restoreWrote |-> FALSE ]

NoListener == [ pc |-> "none", hotkey |-> <<>>, stop |-> -1,
                openAtRead |-> TRUE ]

InFlight(r) == runs[r].pc \notin {"idle", "done"}
AnyInFlight == \E r \in Runs : InFlight(r)

\* ------------------------------------------------------------ prompts
\* number of user prompts in t.config.Prompts
MaxPrompts == 2
PromptTexts == {"p1", "p2"}
defaultPromptText == "default"
OutOfRange == "index out of range"

RECURSIVE SeqsUpTo(_, _)
SeqsUpTo(S, n) ==
    IF n = 0 THEN { <<>> }
    ELSE LET shorter == SeqsUpTo(S, n - 1) IN
         shorter \cup { Append(q, x) : q \in shorter, x \in S }

\* the prompt lists of at most MaxPrompts prompts
PromptLists == SeqsUpTo(PromptTexts, MaxPrompts)
\* the values of t.selectedIndex: below, inside and above every list
Indexes == -1 .. MaxPrompts + 1

\* t.config.Prompts[i].Text, Go's index expression: a panic outside the list
PromptAt(ps, i) == IF i >= 0 /\ i < Len(ps) THEN ps[i + 1] ELSE OutOfRange

\* a resolution whose upper test is off by one
promptTextOffByOne(idx, ps) ==
    IF idx > 0 /\ idx - 1 <= Len(ps) THEN PromptAt(ps, idx - 1)
    ELSE defaultPromptText

\* lines 247-250: the prompt a run sends
promptText(idx, ps) ==
    IF idx > 0 /\ idx - 1 < Len(ps) THEN PromptAt(ps, idx - 1)
    ELSE defaultPromptText

\* ------------------------------------------------- platform primitives
\* a copy keystroke that never reaches the foreground application
copyToClipboardLost(clip, sel) == clip

\* copyToClipboard: the copy keystroke, as the clipboard sees it
copyToClipboard(clip, sel) == IF sel = <<>> THEN clip ELSE sel

\* what a clipboard call of the program may meet
ClipFaults == {"none", "read", "write"}

\* clipboard.ReadAll(): the text it returns ("" with the error)
ReadAll(clip) == IF fault = "read" THEN <<>> ELSE clip

\* clipboard.WriteAll(s) returns an error
WriteAllFails == fault = "write"

\* clipboard.WriteAll(s): the clipboard after the call
WriteAll(s, clip) == IF WriteAllFails THEN clip ELSE s

\* a restore that forgets the write
restoreClipboardNoWrite(s, clip) == clip

\* a restore that writes whatever it is given
restoreWritesAlways(s) == TRUE

\* restoreClipboard(s) calls clipboard.WriteAll(s)
restoreWrites(s) == s # <<>>

\* restoreClipboard(s): the clipboard after the call
restoreClipboard(s, clip) == IF restoreWrites(s) THEN WriteAll(s, clip) ELSE clip

\* translateWithGemini: the (text, error) pair it returns for a call whose
\* remote side behaves as `answer`; "never" ends at the context's deadline
translateWithGemini(text, answer) ==
    CASE answer = "ok"    -> [txt |-> TrimSpace(RespText(text)), err |-> FALSE]
      [] answer = "empty" -> [txt |-> TrimSpace(<<" ">>), err |-> FALSE]
      [] answer = "error" -> [txt |-> <<>>, err |-> TRUE]
      [] answer = "never" -> [txt |-> <<>>, err |-> TRUE]

\* a call made under a context without a deadline
CallReturnsNoDeadline(answer) == answer \in Answers \ {"never"}

\* the remote call returns: always for an answering service, and at the
\* latest when the 20 s deadline of the call's context passes
CallReturns(answer) == answer \in Answers

\* --------------------------------------------------------------- Init
Init ==
    /\ clipboard \in ClipContents
    /\ selection \in Selections
    /\ runs = [r \in Runs |-> IdleRun]
    /\ started = 0
    /\ service \in Answers
    /\ hotkey = DefaultHotkey
    /\ prevHotkey = DefaultHotkey
    /\ hotkeyStopChan = 0
    /\ closedChans = {}
    /\ chansMade = 1
    /\ hotkeyMutex = "free"
    /\ restartPc = "idle"
    /\ restartsDone = 0
    /\ listeners = [l \in Listeners |->
                      IF l = 0 THEN [NoListener EXCEPT !.pc = "lock"]
                      ELSE NoListener]
    /\ spawned = 1
    /\ hookKeys = <<>>
    /\ hookRunning = FALSE
    /\ panicked = FALSE
    /\ fault = "none"
    /\ selectedIndex = 0
    /\ prompts = <<>>

\* ------------------------------------------------- processSelectedText
\* line 238: prev, _ := clipboard.ReadAll()
Snapshot(r) ==
    /\ runs[r].pc = "snapshot"
    /\ runs' = [runs EXCEPT ![r].pc = "copy", ![r].prev = ReadAll(clipboard)]
    /\ UNCHANGED << clipboard, selection, started, service, fault, configVars >>
    /\ UNCHANGED listenerVars

\* lines 239-240: copyToClipboard(); time.Sleep
Copy(r) ==
    /\ runs[r].pc = "copy"
    /\ clipboard' = copyToClipboard(clipboard, selection)
    /\ runs' = [runs EXCEPT ![r].pc = "read"]
    /\ UNCHANGED << selection, started, service, fault, configVars >>
    /\ UNCHANGED listenerVars

\* lines 241-242, 247-252: text, _ := clipboard.ReadAll(); a blank text goes
\* to the restore of line 243, any other text into the remote call
ReadText(r) ==
    /\ runs[r].pc = "read"
    /\ LET text == ReadAll(clipboard) IN
         IF TrimSpace(text) = <<>>
         THEN runs' = [runs EXCEPT ![r].pc = "blank", ![r].text = text]
         ELSE runs' = [runs EXCEPT ![r].pc = "await", ![r].text = text,
                                   ![r].prompt =
                                       promptText(selectedIndex, prompts),
                                   ![r].called = TRUE, ![r].answer = service]
    /\ UNCHANGED << clipboard, selection, started, service, fault, configVars >>
    /\ UNCHANGED listenerVars

\* lines 243-244: restoreClipboard(prev); return
RestoreBlank(r) ==
    /\ runs[r].pc = "blank"
    /\ clipboard' = restoreClipboard(runs[r].prev, clipboard)
    /\ runs' = [runs EXCEPT ![r].pc = "done", ![r].clipEnd = clipboard',
                            ![r].restoreWrote = restoreWrites(runs[r].prev)]
    /\ UNCHANGED << selection, started, service, fault, configVars >>
    /\ UNCHANGED listenerVars

\* a return that skips clipboard.WriteAll(txt)
TranslateReturnNoWrite(r) ==
    /\ runs[r].pc = "await"
    /\ CallReturns(runs[r].answer)
    /\ LET res == translateWithGemini(runs[r].text, runs[r].answer) IN
         runs' = [runs EXCEPT ![r].txt = res.txt, ![r].err = res.err,
                              ![r].pc = IF res.err THEN "done" ELSE "paste",
                              ![r].clipEnd = IF res.err THEN clipboard ELSE @]
    /\ UNCHANGED << clipboard, selection, started, service, fault, configVars >>
    /\ UNCHANGED listenerVars

\* lines 252-255, 260: the call returns; without an error the result is
\* written to the clipboard (WriteAll, Sleep), with one the function returns
TranslateReturn(r) ==
    /\ runs[r].pc = "await"
    /\ CallReturns(runs[r].answer)
    /\ LET res == translateWithGemini(runs[r].text, runs[r].answer) IN
         /\ runs' = [runs EXCEPT ![r].txt = res.txt, ![r].err = res.err,
                                 ![r].pc = IF res.err THEN "done" ELSE "paste",
                                 ![r].clipEnd = IF res.err THEN clipboard ELSE @,
                                 ![r].writeFail =
                                     ~res.err /\ WriteAllFails]
         /\ clipboard' = IF res.err THEN clipboard
                         ELSE WriteAll(res.txt, clipboard)
    /\ UNCHANGED << selection, started, service, fault, configVars >>
    /\ UNCHANGED listenerVars

\* lines 256-257: pasteFromClipboard(); time.Sleep
Paste(r) ==
    /\ runs[r].pc = "paste"
    /\ selection' = <<>>
    /\ runs' = [runs EXCEPT ![r].pc = "restore", ![r].pasted = TRUE,
                            ![r].pastedText = clipboard,
                            ![r].pastedOver = selection]
    /\ UNCHANGED << clipboard, started, service, fault, configVars >>
    /\ UNCHANGED listenerVars

\* line 258: restoreClipboard(prev)
Restore(r) ==
    /\ runs[r].pc = "restore"
    /\ clipboard' = restoreClipboard(runs[r].prev, clipboard)
    /\ runs' = [runs EXCEPT ![r].pc = "done", ![r].clipEnd = clipboard',
                            ![r].restoreWrote = restoreWrites(runs[r].prev)]
    /\ UNCHANGED << selection, started, service, fault, configVars >>
    /\ UNCHANGED listenerVars

RunStep(r) ==
    \/ Snapshot(r) \/ Copy(r) \/ ReadText(r) \/ RestoreBlank(r)
    \/ TranslateReturn(r) \/ Paste(r) \/ Restore(r)

\* the remote service changes its behaviour while no call is in progress
ServiceTurns(a) ==
    /\ ~AnyInFlight
    /\ a # service
    /\ service' = a
    /\ UNCHANGED << clipboard, selection, runs, started, fault, configVars >>
    /\ UNCHANGED listenerVars

\* the clipboard becomes unreadable or unwritable for the program, or usable
\* again, at any moment
ClipboardFault(f) ==
    /\ f # fault
    /\ fault' = f
    /\ UNCHANGED << clipboard, selection, runs, started, service, configVars >>
    /\ UNCHANGED listenerVars

\* the user selects other text while no run is working on the selection
UserSelect(s) ==
    /\ ~AnyInFlight
    /\ s # selection
    /\ selection' = s
    /\ UNCHANGED << clipboard, runs, started, service, fault, configVars >>
    /\ UNCHANGED listenerVars

\* ---------------------------------------------------- the hotkey hook
\* gohook: the registered pairs whose keys are all among the released keys
Matching(keys) ==
    { i \in DOMAIN hookKeys : Range(hookKeys[i]) \subseteq Range(keys) }

\* the number of callbacks one release of `keys` calls
Dispatches(keys) == IF hookRunning THEN Cardinality(Matching(keys)) ELSE 0

\* a callback that calls t.processSelectedText() itself: the hook delivers
\* the next release only when no run is left working
KeyReleaseWaits(keys) ==
    LET n == Dispatches(keys) IN
    /\ ~AnyInFlight
    /\ n > 0
    /\ started + n <= MaxRuns
    /\ started' = started + n
    /\ runs' = [r \in Runs |->
                  IF r > started /\ r <= started + n
                  THEN [IdleRun EXCEPT !.pc = "snapshot", !.clip0 = clipboard,
                                       !.sel0 = selection, !.alone = (n = 1)]
                  ELSE runs[r]]
    /\ UNCHANGED << clipboard, selection, service, fault, configVars >>
    /\ UNCHANGED listenerVars

\* lines 226-228: the keys of a binding are released; every matching callback
\* runs `go t.processSelectedText()` and returns
KeyRelease(keys) ==
    LET n == Dispatches(keys) IN
    /\ n > 0
    /\ started + n <= MaxRuns
    /\ started' = started + n
    /\ runs' = [r \in Runs |->
                  IF r > started /\ r <= started + n
                  THEN [IdleRun EXCEPT !.pc = "snapshot", !.clip0 = clipboard,
                                       !.sel0 = selection,
                                       !.alone = (n = 1 /\ ~AnyInFlight)]
                  ELSE IF n > 0 /\ InFlight(r)
                       THEN [runs[r] EXCEPT !.alone = FALSE]
                       ELSE runs[r]]
    /\ UNCHANGED << clipboard, selection, service, fault, configVars >>
    /\ UNCHANGED listenerVars

\* ---------------------------------------------- restartHotkeyListener
\* lines 89-92: the settings window's hotkey callback
HotkeySelected(h) ==
    /\ restartPc = "idle"
    /\ restartsDone < MaxRestarts
    /\ prevHotkey' = hotkey
    /\ hotkey' = h
    /\ restartPc' = "lock"
    /\ UNCHANGED << hotkeyStopChan, closedChans, chansMade, hotkeyMutex,
                    restartsDone, listeners, spawned, hookKeys, hookRunning >>
    /\ UNCHANGED << orchVars, started, service, fault, configVars, panicked >>

\* line 210: t.hotkeyMutex.Lock()
RestartLock ==
    /\ restartPc = "lock"
    /\ hotkeyMutex = "free"
    /\ hotkeyMutex' = "restart"
    /\ restartPc' = "close"
    /\ UNCHANGED << hotkey, prevHotkey, hotkeyStopChan, closedChans, chansMade,
                    restartsDone, listeners, spawned, hookKeys, hookRunning >>
    /\ UNCHANGED << orchVars, started, service, fault, configVars, panicked >>

\* lines 212-214: close(t.hotkeyStopChan); closing a closed channel panics
RestartClose ==
    /\ restartPc = "close"
    /\ closedChans' = closedChans \cup {hotkeyStopChan}
    /\ panicked' = (panicked \/ hotkeyStopChan \in closedChans)
    /\ restartPc' = "swap"
    /\ UNCHANGED << hotkey, prevHotkey, hotkeyStopChan, chansMade, hotkeyMutex,
                    restartsDone, listeners, spawned, hookKeys, hookRunning >>
    /\ UNCHANGED << orchVars, started, service, fault, configVars >>

\* lines 215-216: make a new channel, go runHotkeyListener
RestartSwap ==
    /\ restartPc = "swap"
    /\ hotkeyStopChan' = chansMade
    /\ chansMade' = chansMade + 1
    /\ listeners' = [listeners EXCEPT ![spawned] =
                         [NoListener EXCEPT !.pc = "lock"]]
    /\ spawned' = spawned + 1
    /\ restartPc' = "unlock"
    /\ UNCHANGED << hotkey, prevHotkey, closedChans, hotkeyMutex, restartsDone,
                    hookKeys, hookRunning >>
    /\ UNCHANGED << orchVars, started, service, fault, configVars, panicked >>

\* lines 211, 217: the deferred Unlock; the call returns
RestartUnlock ==
    /\ restartPc = "unlock"
    /\ hotkeyMutex' = "free"
    /\ restartPc' = "idle"
    /\ restartsDone' = restartsDone + 1
    /\ UNCHANGED << hotkey, prevHotkey, hotkeyStopChan, closedChans, chansMade,
                    listeners, spawned, hookKeys, hookRunning >>
    /\ UNCHANGED << orchVars, started, service, fault, configVars, panicked >>

\* -------------------------------------------------- runHotkeyListener
\* a listener that reads the binding and the channel without the mutex
ListenerReadNoLock(l) ==
    /\ listeners[l].pc = "lock"
    /\ listeners' = [listeners EXCEPT ![l].pc = "register",
                                      ![l].hotkey = hotkey,
                                      ![l].stop = hotkeyStopChan,
                                      ![l].openAtRead =
                                          hotkeyStopChan \notin closedChans]
    /\ UNCHANGED << hotkey, prevHotkey, hotkeyStopChan, closedChans, chansMade,
                    hotkeyMutex, restartPc, restartsDone, spawned, hookKeys,
                    hookRunning >>
    /\ UNCHANGED << orchVars, started, service, fault, configVars, panicked >>

\* lines 220-223: under the mutex, read the binding and the stop channel
ListenerRead(l) ==
    /\ listeners[l].pc = "lock"
    /\ hotkeyMutex = "free"
    /\ listeners' = [listeners EXCEPT ![l].pc = "register",
                                      ![l].hotkey = hotkey,
                                      ![l].stop = hotkeyStopChan,
                                      ![l].openAtRead =
                                          hotkeyStopChan \notin closedChans]
    /\ UNCHANGED << hotkey, prevHotkey, hotkeyStopChan, closedChans, chansMade,
                    hotkeyMutex, restartPc, restartsDone, spawned, hookKeys,
                    hookRunning >>
    /\ UNCHANGED << orchVars, started, service, fault, configVars, panicked >>

\* lines 225-228: hook.Register(hook.KeyUp, keys, callback)
ListenerRegister(l) ==
    /\ listeners[l].pc = "register"
    /\ hookKeys' = Append(hookKeys, Split(listeners[l].hotkey))
    /\ listeners' = [listeners EXCEPT ![l].pc = "start"]
    /\ UNCHANGED << hotkey, prevHotkey, hotkeyStopChan, closedChans, chansMade,
                    hotkeyMutex, restartPc, restartsDone, spawned, hookRunning >>
    /\ UNCHANGED << orchVars, started, service, fault, configVars, panicked >>

\* lines 229-230: s := hook.Start(); the goroutine waits in the select
ListenerStart(l) ==
    /\ listeners[l].pc = "start"
    /\ hookRunning' = TRUE
    /\ listeners' = [listeners EXCEPT ![l].pc = "select"]
    /\ UNCHANGED << hotkey, prevHotkey, hotkeyStopChan, closedChans, chansMade,
                    hotkeyMutex, restartPc, restartsDone, spawned, hookKeys >>
    /\ UNCHANGED << orchVars, started, service, fault, configVars, panicked >>

\* lines 231-232: case <-stop: hook.StopEvent()
ListenerStop(l) ==
    /\ listeners[l].pc = "select"
    /\ listeners[l].stop \in closedChans
    /\ hookRunning' = FALSE
    /\ listeners' = [listeners EXCEPT ![l].pc = "done"]
    /\ UNCHANGED << hotkey, prevHotkey, hotkeyStopChan, closedChans, chansMade,
                    hotkeyMutex, restartPc, restartsDone, spawned, hookKeys >>
    /\ UNCHANGED << orchVars, started, service, fault, configVars, panicked >>

ListenerStep(l) ==
    \/ ListenerRead(l) \/ ListenerRegister(l) \/ ListenerStart(l)
    \/ ListenerStop(l)

Bindings == { Split(h) : h \in HotkeyOptions }

\* ------------------------------------------------------ specifications
\* The whole program. Its two halves meet only in KeyRelease, so they are
\* explored separately below: the orchestrator under a live listener
\* (SpecSolo, SpecRun, SpecRunFair, SpecFault, SpecPrompt) and the listener
\* swap (SpecListener, SpecSwap).
Next ==
    \/ \E r \in Runs : RunStep(r)
    \/ \E s \in Selections : UserSelect(s)
    \/ \E a \in Answers : ServiceTurns(a)
    \/ \E f \in ClipFaults : ClipboardFault(f)
    \/ \E k \in Bindings : KeyRelease(k)
    \/ \E h \in HotkeyOptions : HotkeySelected(h)
    \/ RestartLock
    \/ RestartClose
    \/ RestartSwap
    \/ RestartUnlock
    \/ \E l \in Listeners : ListenerStep(l)

Spec == Init /\ [][Next]_vars

\* The orchestrator on its own: the listener started by main is live on the
\* default binding and the binding is never changed.
InitOrch ==
    /\ runs = [r \in Runs |-> IdleRun]
    /\ started = 0
    /\ hotkey = DefaultHotkey
    /\ prevHotkey = DefaultHotkey
    /\ hotkeyStopChan = 0
    /\ closedChans = {}
    /\ chansMade = 1
    /\ hotkeyMutex = "free"
    /\ restartPc = "idle"
    /\ restartsDone = 0
    /\ listeners = [l \in Listeners |->
                      IF l = 0
                      THEN [pc |-> "select", hotkey |-> DefaultHotkey, stop |-> 0]
                      ELSE NoListener]
    /\ spawned = 1
    /\ hookKeys = << Split(DefaultHotkey) >>
    /\ hookRunning = TRUE
    /\ panicked = FALSE

\* One run at a time, on every clipboard content and selection: the user
\* releases the hotkey only when no run is working.
InitSolo ==
    /\ InitOrch
    /\ fault = "none"
    /\ selectedIndex = 0
    /\ prompts = <<>>
    /\ service \in Answers
    /\ clipboard \in ClipContents
    /\ selection \in Selections

SoloRelease(keys) == ~AnyInFlight /\ KeyRelease(keys)

NextSolo ==
    \/ \E r \in Runs : RunStep(r)
    \/ \E s \in Selections : UserSelect(s)
    \/ \E a \in Answers : ServiceTurns(a)
    \/ \E k \in Bindings : SoloRelease(k)

SpecSolo == InitSolo /\ [][NextSolo]_vars

\* Overlapping runs: the hotkey is released again while runs are working on
\* the selection " a" with "c" on the clipboard.
InitRun ==
    /\ InitOrch
    /\ fault = "none"
    /\ selectedIndex = 0
    /\ prompts = <<>>
    /\ service \in Answers
    /\ clipboard = <<"c">>
    /\ selection = <<" ", "a">>

NextRun ==
    \/ \E r \in Runs : RunStep(r)
    \/ \E k \in Bindings : KeyRelease(k)

SpecRun == InitRun /\ [][NextRun]_vars

\* Termination does not depend on the texts: overlapping runs against a
\* service that never answers, or answers with whitespace only. Go schedules
\* every runnable goroutine: a run that can step does step.
InitFair ==
    /\ InitOrch
    /\ fault = "none"
    /\ selectedIndex = 0
    /\ prompts = <<>>
    /\ clipboard = <<>>
    /\ selection = <<" ", "a">>
    /\ service \in {"never", "empty"}

SpecRunFair ==
    InitFair /\ [][NextRun]_vars /\ \A r \in Runs : WF_vars(RunStep(r))

\* One run at a time while the clipboard turns unreadable or unwritable
\* and back under it.
InitFault ==
    /\ InitOrch
    /\ fault \in ClipFaults
    /\ selectedIndex = 0
    /\ prompts = <<>>
    /\ service \in {"ok", "empty"}
    /\ clipboard \in ClipContents
    /\ selection \in Selections

NextFault ==
    \/ \E r \in Runs : RunStep(r)
    \/ \E f \in ClipFaults : ClipboardFault(f)
    \/ \E k \in Bindings : SoloRelease(k)

SpecFault == InitFault /\ [][NextFault]_vars

\* Prompt resolution: one run at a time for every value of t.selectedIndex
\* and every prompt list of the bounds.
InitPrompt ==
    /\ InitOrch
    /\ fault = "none"
    /\ selectedIndex \in Indexes
    /\ prompts \in PromptLists
    /\ service = "ok"
    /\ clipboard \in ClipContents
    /\ selection \in Selections

NextPrompt ==
    \/ \E r \in Runs : RunStep(r)
    \/ \E k \in Bindings : SoloRelease(k)

SpecPrompt == InitPrompt /\ [][NextPrompt]_vars

\* The listener swap on its own: dispatched runs are counted, not executed.
InitListener ==
    /\ Init
    /\ service = "ok"
    /\ clipboard = <<"c">>
    /\ selection = <<"a">>

NextListener ==
    \/ \E k \in Bindings : KeyRelease(k)
    \/ \E h \in HotkeyOptions : HotkeySelected(h)
    \/ RestartLock
    \/ RestartClose
    \/ RestartSwap
    \/ RestartUnlock
    \/ \E l \in Listeners : ListenerStep(l)

SpecListener == InitListener /\ [][NextListener]_vars

\* The channel hand-over alone: restarts and listener goroutines, no key
\* releases.
NextSwap ==
    \/ \E h \in HotkeyOptions : HotkeySelected(h)
    \/ RestartLock
    \/ RestartClose
    \/ RestartSwap
    \/ RestartUnlock
    \/ \E l \in Listeners : ListenerStep(l)

SpecSwap == InitListener /\ [][NextSwap]_vars

\* ================================================================ claims
Done(r) == runs[r].pc = "done"
Blank(t) == TrimSpace(t) = <<>>
\* the call of run r was made and returned without an error
Translated(r) == runs[r].called /\ ~runs[r].err /\ runs[r].pc \in {"paste", "restore", "done"}

\* C1: a run that is alone from trigger to end, triggered on a non-empty
\* clipboard C and a non-blank selection, whose remote call succeeds, ends
\* with the clipboard equal to C.
C1_RestoreRoundTrip ==
    \A r \in Runs :
        ( /\ Done(r) /\ runs[r].alone /\ Translated(r)
          /\ runs[r].clip0 # <<>> /\ ~Blank(runs[r].sel0) )
        => runs[r].clipEnd = runs[r].clip0

C1_Witness ==
    \E r \in Runs :
        /\ Done(r) /\ runs[r].alone /\ Translated(r) /\ runs[r].pasted
        /\ runs[r].clip0 = <<"c">> /\ runs[r].sel0 = <<" ", "a">>
        /\ runs[r].clipEnd = <<"c">>

\* C2: a run triggered while the selection trims to the empty string (nothing
\* selected included) never calls the remote service and never pastes.
C2_BlankSelectionNoCall ==
    \A r \in Runs :
        (runs[r].pc # "idle" /\ Blank(runs[r].sel0))
        => (~runs[r].called /\ ~runs[r].pasted)

\* C3: a run whose remote call fails, triggered on a non-empty clipboard C,
\* ends without a paste and with the clipboard equal to C.
C3_FailureRestores ==
    \A r \in Runs :
        ( /\ Done(r) /\ runs[r].alone /\ runs[r].called /\ runs[r].err
          /\ runs[r].clip0 # <<>> )
        => (~runs[r].pasted /\ runs[r].clipEnd = runs[r].clip0)

\* C4: once restartHotkeyListener has returned after a change of binding, a
\* release of the old binding's keys dispatches no run and a release of the
\* new binding's keys dispatches exactly one.
C4_RebindAtomic ==
    ( /\ restartPc = "idle" /\ restartsDone >= 1 /\ prevHotkey # hotkey )
    => ( /\ Dispatches(Split(prevHotkey)) = 0
         /\ Dispatches(Split(hotkey)) = 1 )

\* C5: no two listener goroutines are live (hook started, not yet stopped)
\* at the same time.
Live(l) == listeners[l].pc = "select"
C5_OneListenerLive ==
    \A l1, l2 \in Listeners : (Live(l1) /\ Live(l2)) => l1 = l2

\* C6: a release of registered keys is accepted and dispatched whatever the
\* earlier runs are doing (up to the run bound of the model).
C6_DispatchNeverBlocked ==
    \A k \in Bindings :
        (Dispatches(k) > 0 /\ started + Dispatches(k) <= MaxRuns)
        => ENABLED KeyRelease(k)

C6_Witness ==
    \E r1, r2 \in Runs :
        /\ r1 # r2
        /\ runs[r1].pc = "await" /\ runs[r1].answer = "never"
        /\ runs[r2].pc = "snapshot"

\* C7: of the runs triggered on the same selection that overlap, at most one
\* issues a paste that changes the foreground text.
EffectivePaste(r) == runs[r].pasted /\ runs[r].pastedText # <<>>
C7_AtMostOneReplacement ==
    \A r1, r2 \in Runs :
        ( /\ r1 # r2 /\ ~runs[r1].alone /\ ~runs[r2].alone
          /\ runs[r1].sel0 = runs[r2].sel0 /\ ~Blank(runs[r1].sel0)
          /\ EffectivePaste(r1) /\ EffectivePaste(r2) )
        => FALSE

\* C8: every run that was started ends.
C8_EveryRunEnds ==
    \A r \in Runs : (runs[r].pc # "idle") ~> Done(r)

C8_Witness ==
    \E r \in Runs : Done(r) /\ runs[r].answer = "never" /\ runs[r].err

\* C9: a run triggered on an empty clipboard and a whitespace-only selection
\* makes no remote call and ends with the clipboard empty.
C9_BlankOnEmptyStaysEmpty ==
    \A r \in Runs :
        ( /\ Done(r) /\ runs[r].alone /\ runs[r].clip0 = <<>>
          /\ runs[r].sel0 # <<>> /\ Blank(runs[r].sel0) )
        => (~runs[r].called /\ runs[r].clipEnd = <<>>)

\* C10: in a run that is alone and whose call succeeds on a selection, the
\* paste comes after the result is on the clipboard and before the restore:
\* the pasted text is the trimmed answer to the selection of that run, it
\* replaces that selection, the clipboard holds it until the restore, and the
\* run ends on the original clipboard content when that was not empty.
C10_ReplacementAndOrder ==
    \A r \in Runs :
        ( /\ runs[r].alone /\ runs[r].answer = "ok" /\ runs[r].sel0 # <<>>
          /\ runs[r].pasted )
        => /\ runs[r].pc \in {"restore", "done"}
           /\ runs[r].text = runs[r].sel0
           /\ runs[r].pastedOver = runs[r].sel0
           /\ runs[r].pastedText = TrimSpace(RespText(runs[r].sel0))
           /\ runs[r].pc = "restore" => clipboard = runs[r].pastedText
           /\ (Done(r) /\ runs[r].clip0 # <<>>) => runs[r].clipEnd = runs[r].clip0

C10_Witness ==
    \E r \in Runs :
        /\ runs[r].alone /\ runs[r].answer = "ok" /\ runs[r].pasted
        /\ runs[r].pc = "restore"
        /\ runs[r].clip0 = <<"c">> /\ runs[r].sel0 = <<" ", "a">>
        /\ clipboard = <<"x">> /\ runs[r].pastedOver = <<" ", "a">>

\* the snapshot of run r has been taken
Snapshotted(r) == runs[r].pc \notin {"idle", "snapshot"}

\* C11: a run whose snapshot is the empty string (the clipboard was empty,
\* or the read of line 238 failed) goes on as any other run: a non-blank
\* captured text is sent to the remote service and a returned result is
\* pasted; its restore never writes; and when the result was written, the
\* clipboard holds the result at the end of the run.
C11_EmptySnapshotNoRestore ==
    \A r \in Runs :
        (Snapshotted(r) /\ runs[r].alone /\ runs[r].prev = <<>>) =>
            /\ ~runs[r].restoreWrote
            /\ (runs[r].pc \notin {"copy", "read"} /\ ~Blank(runs[r].text))
                   => runs[r].called
            /\ (Done(r) /\ Translated(r)) => runs[r].pasted
            /\ (Done(r) /\ Translated(r) /\ ~runs[r].writeFail)
                   => runs[r].clipEnd = runs[r].txt

\* a run whose snapshot read failed on a non-empty clipboard has pasted a
\* translation and ended with the translation on the clipboard
C11_Witness ==
    \E r \in Runs :
        /\ Done(r) /\ runs[r].alone
        /\ runs[r].clip0 # <<>> /\ runs[r].prev = <<>>
        /\ Translated(r) /\ runs[r].pasted
        /\ runs[r].txt # <<>> /\ runs[r].clipEnd = runs[r].txt
        /\ runs[r].clipEnd # runs[r].clip0

\* C12: a run whose write of the translation result (line 254) fails issues
\* no paste keystroke, and still restores its snapshot.
C12_WriteFailureNoPaste ==
    \A r \in Runs :
        runs[r].writeFail =>
            /\ ~runs[r].pasted
            /\ (Done(r) /\ runs[r].prev # <<>>) => runs[r].restoreWrote

\* C13: a run whose remote call returns no error and a text that trims to
\* the empty string issues no paste keystroke, and restores its snapshot.
C13_EmptyResultNoPaste ==
    \A r \in Runs :
        (Translated(r) /\ runs[r].txt = <<>>) =>
            /\ ~runs[r].pasted
            /\ (Done(r) /\ runs[r].prev # <<>>)
                   => runs[r].clipEnd = runs[r].prev

\* run r sent text other than the selection it was triggered on
WrongText(r) == runs[r].called /\ runs[r].text # runs[r].sel0
\* run r was triggered on a non-blank selection and a non-empty clipboard
Regular(r) == runs[r].pc # "idle" /\ ~Blank(runs[r].sel0) /\ runs[r].clip0 # <<>>

\* C14: nothing keeps two runs apart. Runs that overlap can take each
\* other's clipboard writes for the snapshot or for the selection (the
\* witness below is such an interleaving); a run on a non-blank selection
\* and a non-empty clipboard C that sends text other than the selection, or
\* that ends after a successful call with the clipboard different from C,
\* is always a run that overlapped another one.
C14_WrongOnlyWhenOverlapping ==
    \A r \in Runs :
        (Regular(r) /\ runs[r].alone) =>
            /\ ~WrongText(r)
            /\ (Done(r) /\ Translated(r)) => runs[r].clipEnd = runs[r].clip0

\* two runs triggered on the same clipboard C and the same selection, each
\* inside the other's delays, have ended: one of them sent the other's
\* translation instead of the selection, and the clipboard is not C
C14_Witness ==
    \E r1, r2 \in Runs :
        /\ r1 # r2
        /\ Regular(r1) /\ Regular(r2)
        /\ ~runs[r1].alone /\ ~runs[r2].alone
        /\ runs[r1].clip0 = runs[r2].clip0 /\ runs[r1].sel0 = runs[r2].sel0
        /\ Done(r1) /\ Done(r2)
        /\ WrongText(r2) /\ runs[r2].text = runs[r1].txt
        /\ clipboard # runs[r1].clip0

\* C16: the prompt a run sends is the built-in default when t.selectedIndex
\* is 0, negative or greater than the number of user prompts, and the user
\* prompt at position selectedIndex-1 (Go's index) otherwise; no run indexes
\* outside the list.
C16_PromptResolution ==
    \A r \in Runs :
        runs[r].called =>
            /\ runs[r].prompt # OutOfRange
            /\ (selectedIndex <= 0 \/ selectedIndex > Len(prompts))
                   => runs[r].prompt = defaultPromptText
            /\ (1 <= selectedIndex /\ selectedIndex <= Len(prompts))
                   => runs[r].prompt = prompts[selectedIndex]

\* a run has sent the last of two different user prompts
C16_Witness ==
    \E r \in Runs :
        /\ runs[r].called
        /\ Len(prompts) = 2 /\ prompts[1] # prompts[2]
        /\ selectedIndex = 2
        /\ runs[r].prompt = prompts[2]

\* every listener goroutine has taken all the steps it can take
Settled ==
    /\ restartPc = "idle"
    /\ \A l \in Listeners :
          \/ listeners[l].pc \in {"none", "done"}
          \/ listeners[l].pc = "select" /\ listeners[l].stop \notin closedChans

\* C15: after the restarts made so far, once the listener goroutines have
\* taken all their steps, the hook is running for the configured binding: a
\* goroutine waits in its select with that binding and a release of the
\* binding's keys dispatches.
C15_RebindKeepsListener ==
    (Settled /\ restartsDone >= 1) =>
        /\ \E l \in Listeners : Live(l) /\ listeners[l].hotkey = hotkey
        /\ hookRunning
        /\ Dispatches(Split(hotkey)) >= 1

====
